---- MODULE Spec2Model ----
(***************************************************************************)
(* Model of the Google Calendar discovery-document pipeline of             *)
(* python-api/app/integrations/google_calendar:                            *)
(*   - SchemaResolver (schemas/calendar_metadata_schemas.py), run as a     *)
(*     small-step machine with an explicit call stack and a heap of        *)
(*     `seen` set objects, so that aliasing of the mutable set is visible; *)
(*   - get_api_method_parameters (parse_calendar_api_data.py);             *)
(*   - get_request_response_schemas and get_api_methods, the latter one    *)
(*     step per resource entry and per method, with the in-place change    *)
(*     of the methods it is passed;                                        *)
(*   - main_entry_point_function and parse_data (main_entry_point.py),     *)
(*     which run the stages above in sequence;                             *)
(*   - convert_api_methods_to_csv (convert_data_to_csv.py), one step per   *)
(*     row written, the file kept as the sequence of its lines.            *)
(***************************************************************************)
EXTENDS Integers, Sequences, FiniteSets, TLC

VARIABLES
    schemas,            \* SchemaResolver.schemas: ordered mapping, a sequence of items
    resolved_schemas,   \* SchemaResolver.resolved_schemas: ordered mapping
    ri,                 \* position of resolve_all's for loop in schemas (1-based)
    stack,              \* call stack of resolve_all / _resolve_schema frames
    heap,               \* the `seen` set objects allocated so far, by address
    mode,               \* "off" | "idle" | "call" | "ret" | "done" | "raised"
    arg,                \* the node being called on (call) or the value returned (ret)
    argSeen,            \* address of the `seen` argument of the call (0 is None)
    method_parameters,  \* argument of get_api_method_parameters
    pi,                 \* position of its for loop in method_parameters.items()
    required_params,    \* its local list required_params
    optional_params,    \* its local list optional_params
    required_src,       \* for each record of required_params, the position of its entry
    optional_src,       \* for each record of optional_params, the position of its entry
    pmode,              \* "off" | "entry" | "loop" | "returned"
    resources_with_methods,   \* argument of get_api_methods, changed in place
    resources_in,       \* that argument as it was passed
    returned_before,    \* what the earlier calls of get_api_methods on it returned
    formatted_api_endpoints,  \* its local list of descriptors
    endpoint_src,       \* for each descriptor, <<resource position, method position>>
    gi,                 \* position of its outer for loop (resource entries)
    gj,                 \* position of its inner for loop (methods of entry gi)
    gmode,              \* "off" | "resources" | "methods" | "returned" | "raised"
    json_save_path,     \* main_entry_point_function: what fetch_api_data returned
    json_file,          \* what the file at json_path holds
    data,               \* parse_data: the loaded document
    parent_metadata,    \* parse_data: the CalendarMetadataParents record
    pc,                 \* position of main_entry_point_function / parse_data
    calls,              \* the functions invoked so far, in order
    parse_result,       \* "off" | "running" | "returned" | "raised"
    response,           \* what main_entry_point_function returned
    failure,            \* the stage whose exception ended the run, "" for none
    csv_data,           \* argument of convert_api_methods_to_csv: model_dump() of each row
    column_names,       \* its local list column_names
    csv_file,           \* the file at filepath: whether it exists, and its lines
    ci,                 \* position of its for loop in data (1-based)
    cmode,              \* "off" | "called" | "rows" | "returned" | "raised"
    csv_error           \* the exception it raised, "" for none

rvars == <<schemas, resolved_schemas, ri, stack, heap, mode, arg, argSeen>>
pvars == <<method_parameters, pi, required_params, optional_params,
           required_src, optional_src, pmode>>
mvars == <<resources_with_methods, resources_in, returned_before, formatted_api_endpoints,
           endpoint_src, gi, gj, gmode>>
dvars == <<json_save_path, json_file, data, parent_metadata, pc, calls, parse_result,
           response, failure>>
cvars == <<csv_data, column_names, csv_file, ci, cmode, csv_error>>
vars == <<schemas, resolved_schemas, ri, stack, heap, mode, arg, argSeen,
          method_parameters, pi, required_params, optional_params,
          required_src, optional_src, pmode,
          resources_with_methods, resources_in, returned_before, formatted_api_endpoints,
          endpoint_src, gi, gj, gmode,
          json_save_path, json_file, data, parent_metadata, pc, calls, parse_result,
          response, failure,
          csv_data, column_names, csv_file, ci, cmode, csv_error>>

(***************************************************************************)
(* Bounds of the model.                                                    *)
(***************************************************************************)
MaxWeight == 4      \* total number of nodes of the schemas mapping's values
MaxStack == 12      \* cap of the call stack (never reached by the code)
MaxParams == 2      \* entries of a parameter mapping
MaxResources == 2   \* entries of the list passed to get_api_methods
MaxMethods == 2     \* methods of that list, all entries together

(***************************************************************************)
(* JSON values as Python sees them.  Every value is a record               *)
(*   [t, s, items]: t the type, s the payload of a scalar, items the       *)
(* ordered entries of a list (keys "") or of a dict (insertion order).     *)
(***************************************************************************)
Item(key, val) == [k |-> key, v |-> val]

Str(x) == [t |-> "str", s |-> x, items |-> <<>>]

Bool(x) == [t |-> "bool", s |-> x, items |-> <<>>]

None == [t |-> "null", s |-> "", items |-> <<>>]

\* an integer, s its decimal digits
IntVal(x) == [t |-> "int", s |-> x, items |-> <<>>]

RECURSIVE ListItems(_)
ListItems(vs) ==
    IF vs = <<>> THEN <<>> ELSE <<Item("", Head(vs))>> \o ListItems(Tail(vs))

List(vs) == [t |-> "list", s |-> "", items |-> ListItems(vs)]

Dict(kvs) == [t |-> "dict", s |-> "", items |-> kvs]

IsList(v) == v.t = "list"

IsDict(v) == v.t = "dict"

\* key in d
HasKey(d, key) == \E i \in 1..Len(d.items) : d.items[i].k = key

\* d[key]
GetKey(d, key) == d.items[CHOOSE i \in 1..Len(d.items) : d.items[i].k = key].v

\* Python truthiness: `not x` is ~Truthy(x)
Truthy(v) ==
    CASE v.t = "null" -> FALSE
      [] v.t = "bool" -> v.s = "true"
      [] v.t = "str"  -> v.s # ""
      [] v.t = "int"  -> v.s # "0"
      [] OTHER        -> Len(v.items) > 0

\* hash(x) succeeds: lists and dicts are unhashable
Hashable(v) == v.t \notin {"list", "dict"}

(***************************************************************************)
(* Inputs of the resolver: every schemas mapping over the names below      *)
(* whose values hold at most MaxWeight nodes in total.                     *)
(***************************************************************************)
\* a schema node {"$ref": ref_value}
RefNode(ref_value) == Dict(<<Item("$ref", ref_value)>>)

SchemaNames == <<"A", "B", "C">>

DictKeys == <<"p", "q", "r", "s", "t", "u">>

\* the leaves of a schema value: a scalar, a reference to each name, and a
\* "$ref" whose value is a sequence
Leaves ==
    {Str("x"), RefNode(List(<<>>))}
        \cup {RefNode(Str(SchemaNames[i])) : i \in 1..Len(SchemaNames)}

\* the falsy values a schema entry may hold: {}, [] and ""
FalsyLeaves == {Dict(<<>>), List(<<>>), Str("")}

RECURSIVE ZipItems(_, _, _)
\* the items ks[i]: vs[i], ks[i+1]: vs[i+1], ... up to the last of vs
ZipItems(ks, vs, i) ==
    IF i > Len(vs) THEN <<>> ELSE <<Item(ks[i], vs[i])>> \o ZipItems(ks, vs, i + 1)

KeyItems(f) == ZipItems(DictKeys, f, 1)

RECURSIVE Trees(_), Forests(_)
\* the values of exactly w nodes
Trees(w) ==
    IF w = 1 THEN Leaves
    ELSE {List(f) : f \in Forests(w - 1)} \cup {Dict(KeyItems(f)) : f \in Forests(w - 1)}

\* the sequences of values of exactly w nodes in total
Forests(w) ==
    IF w = 0 THEN {<<>>}
    ELSE UNION {{<<tr>> \o f : tr \in Trees(a), f \in Forests(w - a)} : a \in 1..w}

\* the values of exactly w nodes a schema entry may hold
EntryValues(w) == IF w = 1 THEN Leaves \cup FalsyLeaves ELSE Trees(w)

RECURSIVE Maps(_, _)
\* the mappings with keys `names` (in that order) of at most w nodes
Maps(names, w) ==
    IF names = <<>> THEN {<<>>}
    ELSE UNION {{<<Item(Head(names), tr)>> \o rest :
                    tr \in EntryValues(a), rest \in Maps(Tail(names), w - a)} :
                a \in 1..(w - Len(Tail(names)))}

(***************************************************************************)
(* SchemaResolver                                                          *)
(***************************************************************************)
Keys(m) == {m[i].k : i \in 1..Len(m)}

\* self.schemas.get(name): the value, or None when the key is absent
SchemasGet(m, ref_value) ==
    IF ref_value.t = "str" /\ ref_value.s \in Keys(m)
    THEN m[CHOOSE i \in 1..Len(m) : m[i].k = ref_value.s].v
    ELSE None

\* the membership test forgotten: no reference is ever found in seen
InSeen_Never(h, p, ref_value) == FALSE

\* ref_value in seen
InSeen(h, p, ref_value) == ref_value \in h[p]

\* seen.add(ref_value)
SeenAdd(h, p, ref_value) == [h EXCEPT ![p] = h[p] \cup {ref_value}]

\* the seen set the items of a list are resolved with: the list's own object
ListItemSeen(h, p) == <<h, p>>

\* the seen set a value of a mapping is resolved with: seen.copy()
DictItemSeen(h, p) == <<Append(h, h[p]), Len(h) + 1>>

\* one set object for every call without a seen argument: a default seen=set()
TopSeen_Shared(h) == IF h = <<>> THEN <<<<{}>>, 1>> ELSE <<h, 1>>

\* the seen set of a call without a seen argument: seen = set(), a new object
TopSeen(h) == <<Append(h, {}), Len(h) + 1>>

\* the reference dropped instead of kept: return {}
Marker_Empty(ref_value) == Dict(<<>>)

\* return {"$ref": ref_value}
Marker(ref_value) == Dict(<<Item("$ref", ref_value)>>)

\* the check of the looked-up schema forgotten
Unresolved_Never(ref_schema) == FALSE

\* `not ref_schema`: the reference is reported unresolved
Unresolved(ref_schema) == ~Truthy(ref_schema)

Frame(kind, node, p) ==
    [kind |-> kind, node |-> node, idx |-> 1, acc |-> <<>>, seen |-> p,
     entry |-> IF p = 0 THEN {} ELSE heap[p]]

Top == stack[Len(stack)]

Pop == SubSeq(stack, 1, Len(stack) - 1)

\* resolve_all: the next iteration of `for schema_name in self.schemas`
ResolveAllStep ==
    /\ mode = "idle"
    /\ ri <= Len(schemas)
    /\ Len(stack) < MaxStack
    /\ stack' = Append(stack, Frame("top", schemas[ri].v, 0))
    /\ heap' = TopSeen(heap)[1]
    /\ mode' = "call"
    /\ arg' = schemas[ri].v
    /\ argSeen' = TopSeen(heap)[2]
    /\ UNCHANGED <<schemas, resolved_schemas, ri, pvars, mvars, dvars, cvars>>

\* resolve_all: the loop is exhausted
ResolveAllReturn ==
    /\ mode = "idle"
    /\ ri > Len(schemas)
    /\ mode' = "done"
    /\ UNCHANGED <<schemas, resolved_schemas, ri, stack, heap, arg, argSeen, pvars,
                   mvars, dvars, cvars>>

\* isinstance(schema, list)
CallList ==
    /\ mode = "call"
    /\ IsList(arg)
    /\ IF arg.items = <<>>
       THEN /\ mode' = "ret"
            /\ arg' = List(<<>>)
            /\ UNCHANGED <<stack, heap, argSeen>>
       ELSE /\ Len(stack) < MaxStack
            /\ stack' = Append(stack, Frame("list", arg, argSeen))
            /\ heap' = ListItemSeen(heap, argSeen)[1]
            /\ argSeen' = ListItemSeen(heap, argSeen)[2]
            /\ arg' = arg.items[1].v
            /\ mode' = "call"
    /\ UNCHANGED <<schemas, resolved_schemas, ri, pvars, mvars, dvars, cvars>>

\* not isinstance(schema, dict): returned as is
CallScalar ==
    /\ mode = "call"
    /\ ~IsList(arg)
    /\ ~IsDict(arg)
    /\ mode' = "ret"
    /\ UNCHANGED <<schemas, resolved_schemas, ri, stack, heap, arg, argSeen, pvars,
                   mvars, dvars, cvars>>

\* "$ref" in schema
CallRef ==
    /\ mode = "call"
    /\ IsDict(arg)
    /\ HasKey(arg, "$ref")
    /\ LET ref_value == GetKey(arg, "$ref")
           ref_schema == SchemasGet(schemas, ref_value)
       IN  IF ~Hashable(ref_value)
           THEN \* `ref_value in seen` raises TypeError; nothing catches it
                /\ mode' = "raised"
                /\ UNCHANGED <<stack, heap, arg, argSeen>>
           ELSE IF InSeen(heap, argSeen, ref_value)
           THEN /\ mode' = "ret"
                /\ arg' = Marker(ref_value)
                /\ UNCHANGED <<stack, heap, argSeen>>
           ELSE IF Unresolved(ref_schema)
           THEN /\ heap' = SeenAdd(heap, argSeen, ref_value)
                /\ mode' = "ret"
                /\ arg' = Marker(ref_value)
                /\ UNCHANGED <<stack, argSeen>>
           ELSE /\ Len(stack) < MaxStack
                /\ heap' = SeenAdd(heap, argSeen, ref_value)
                /\ stack' = Append(stack, Frame("ref", arg, argSeen))
                /\ mode' = "call"
                /\ arg' = ref_schema
                /\ UNCHANGED argSeen
    /\ UNCHANGED <<schemas, resolved_schemas, ri, pvars, mvars, dvars, cvars>>

\* a mapping without "$ref": resolved = {}, then one call per item
CallDict ==
    /\ mode = "call"
    /\ IsDict(arg)
    /\ ~HasKey(arg, "$ref")
    /\ IF arg.items = <<>>
       THEN /\ mode' = "ret"
            /\ arg' = Dict(<<>>)
            /\ UNCHANGED <<stack, heap, argSeen>>
       ELSE /\ Len(stack) < MaxStack
            /\ stack' = Append(stack, Frame("dict", arg, argSeen))
            /\ heap' = DictItemSeen(heap, argSeen)[1]
            /\ argSeen' = DictItemSeen(heap, argSeen)[2]
            /\ arg' = arg.items[1].v
            /\ mode' = "call"
    /\ UNCHANGED <<schemas, resolved_schemas, ri, pvars, mvars, dvars, cvars>>

\* resolve_all: self.resolved_schemas[schema_name] = <the value returned>
RetTop ==
    /\ mode = "ret"
    /\ Top.kind = "top"
    /\ resolved_schemas' = Append(resolved_schemas, Item(schemas[ri].k, arg))
    /\ ri' = ri + 1
    /\ stack' = Pop
    /\ mode' = "idle"
    /\ UNCHANGED <<schemas, heap, arg, argSeen, pvars, mvars, dvars, cvars>>

\* return self._resolve_schema(ref_schema, seen)
RetRef ==
    /\ mode = "ret"
    /\ Top.kind = "ref"
    /\ stack' = Pop
    /\ UNCHANGED <<schemas, resolved_schemas, ri, heap, mode, arg, argSeen, pvars, mvars,
                   dvars, cvars>>

\* the list comprehension: keep the item's value, go on to the next item
RetList ==
    /\ mode = "ret"
    /\ Top.kind = "list"
    /\ LET f == Top
           acc == Append(f.acc, Item("", arg))
       IN  IF f.idx < Len(f.node.items)
           THEN /\ stack' = [stack EXCEPT ![Len(stack)] =
                                [f EXCEPT !.idx = f.idx + 1, !.acc = acc]]
                /\ heap' = ListItemSeen(heap, f.seen)[1]
                /\ argSeen' = ListItemSeen(heap, f.seen)[2]
                /\ arg' = f.node.items[f.idx + 1].v
                /\ mode' = "call"
           ELSE /\ stack' = Pop
                /\ arg' = [t |-> "list", s |-> "", items |-> acc]
                /\ UNCHANGED <<heap, mode, argSeen>>
    /\ UNCHANGED <<schemas, resolved_schemas, ri, pvars, mvars, dvars, cvars>>

\* resolved[key] = <the value returned>, go on to the next item
RetDict ==
    /\ mode = "ret"
    /\ Top.kind = "dict"
    /\ LET f == Top
           acc == Append(f.acc, Item(f.node.items[f.idx].k, arg))
       IN  IF f.idx < Len(f.node.items)
           THEN /\ stack' = [stack EXCEPT ![Len(stack)] =
                                [f EXCEPT !.idx = f.idx + 1, !.acc = acc]]
                /\ heap' = DictItemSeen(heap, f.seen)[1]
                /\ argSeen' = DictItemSeen(heap, f.seen)[2]
                /\ arg' = f.node.items[f.idx + 1].v
                /\ mode' = "call"
           ELSE /\ stack' = Pop
                /\ arg' = Dict(acc)
                /\ UNCHANGED <<heap, mode, argSeen>>
    /\ UNCHANGED <<schemas, resolved_schemas, ri, pvars, mvars, dvars, cvars>>

ParamsOff ==
    /\ method_parameters = None
    /\ pi = 0
    /\ required_params = <<>>
    /\ optional_params = <<>>
    /\ required_src = <<>>
    /\ optional_src = <<>>
    /\ pmode = "off"

MethodsOff ==
    /\ resources_with_methods = None
    /\ resources_in = None
    /\ returned_before = <<>>
    /\ formatted_api_endpoints = <<>>
    /\ endpoint_src = <<>>
    /\ gi = 0
    /\ gj = 0
    /\ gmode = "off"

DriverOff ==
    /\ json_save_path = None
    /\ json_file = None
    /\ data = None
    /\ parent_metadata = None
    /\ pc = "off"
    /\ calls = <<>>
    /\ parse_result = "off"
    /\ response = None
    /\ failure = ""

CsvOff ==
    /\ csv_data = <<>>
    /\ column_names = <<>>
    /\ csv_file = [exists |-> FALSE, lines |-> <<>>]
    /\ ci = 0
    /\ cmode = "off"
    /\ csv_error = ""

\* SchemaResolver(schemas), before resolve_all()
InitResolver ==
    /\ schemas \in {<<>>} \cup Maps(<<"A">>, MaxWeight - 1)
                          \cup Maps(<<"A", "B">>, MaxWeight)
                          \cup Maps(<<"A", "B", "C">>, MaxWeight)
    /\ resolved_schemas = <<>>
    /\ ri = 1
    /\ stack = <<>>
    /\ heap = <<>>
    /\ mode = "idle"
    /\ arg = None
    /\ argSeen = 0
    /\ ParamsOff
    /\ MethodsOff
    /\ DriverOff
    /\ CsvOff

NextResolver ==
    \/ ResolveAllStep
    \/ ResolveAllReturn
    \/ CallList
    \/ CallScalar
    \/ CallRef
    \/ CallDict
    \/ RetTop
    \/ RetRef
    \/ RetList
    \/ RetDict

SpecResolver == InitResolver /\ [][NextResolver]_vars

\* the interpreter always takes the next step of a running call
FairResolver == SpecResolver /\ WF_vars(NextResolver)

(***************************************************************************)
(* get_api_method_parameters                                               *)
(***************************************************************************)
ParamNames == {"calendarId", "maxResults", "q"}

\* the attribute mappings of a parameter: with or without `type`, `required`
\* (true, false, a string or null) and `name`, `required` first or second
ParamAttrs ==
    LET types == {<<>>, <<Item("type", Str("string"))>>}
        reqs  == {<<>>} \cup {<<Item("required", r)>> :
                                 r \in {Bool("true"), Bool("false"), Str("x"), None}}
        names == {<<>>, <<Item("name", Str("other"))>>}
    IN  {Dict(ty \o rq \o nm) : ty \in types, rq \in reqs, nm \in names}
            \cup {Dict(rq \o ty) : ty \in types, rq \in reqs}

\* what the value of a parameter entry may be: a mapping, or something else
ParamValues == ParamAttrs \cup {Str("x"), List(<<>>), None}

\* the sequences of n distinct parameter names
KeySeqs(n) == {ks \in [1..n -> ParamNames] : \A i, j \in 1..n : i # j => ks[i] # ks[j]}

\* d[key] = val on the items of a dict: in place when the key exists
DictSet(items, key, val) ==
    IF \E i \in 1..Len(items) : items[i].k = key
    THEN [items EXCEPT ![CHOOSE i \in 1..Len(items) : items[i].k = key] = Item(key, val)]
    ELSE Append(items, Item(key, val))

RECURSIVE DictMerge(_, _)
\* {**items, **more}
DictMerge(items, more) ==
    IF more = <<>> THEN items
    ELSE DictMerge(DictSet(items, Head(more).k, Head(more).v), Tail(more))

\* d.pop(key)
DictPop(d, key) == Dict(SelectSeq(d.items, LAMBDA it : it.k # key))

\* parameter_dict = {"name": name, **value}
ParameterDict(name, value) == Dict(DictMerge(<<Item("name", Str(name))>>, value.items))

\* not isinstance(value, dict): continue
SkipParam(value) == ~IsDict(value)

\* the value of `required` tested instead of its presence: value.get("required")
IsRequired_Truthy(parameter_dict) ==
    HasKey(parameter_dict, "required") /\ Truthy(GetKey(parameter_dict, "required"))

\* "required" in parameter_dict
IsRequired(parameter_dict) == HasKey(parameter_dict, "required")

\* list.insert(0, x)
ListAppend_Front(lst, x) == <<x>> \o lst

\* list.append(x)
ListAppend(lst, x) == Append(lst, x)

\* if not method_parameters: return [], []
ParamsEntry ==
    /\ pmode = "entry"
    /\ IF ~Truthy(method_parameters)
       THEN pmode' = "returned" /\ pi' = pi
       ELSE pmode' = "loop" /\ pi' = 1
    /\ UNCHANGED <<method_parameters, required_params, optional_params,
                   required_src, optional_src, rvars, mvars, dvars, cvars>>

\* the key popped from the attribute mapping itself: value.pop("required")
ValueAfter_Popped(value) == DictPop(value, "required")

\* the attribute mapping as one iteration leaves it: parameter_dict is a new
\* mapping, and the pop acts on that one
ValueAfter(value) == value

\* one iteration of `for name, value in method_parameters.items()`
ParamsIter ==
    /\ pmode = "loop"
    /\ pi <= Len(method_parameters.items)
    /\ LET name == method_parameters.items[pi].k
           value == method_parameters.items[pi].v
           parameter_dict == ParameterDict(name, value)
       IN  IF SkipParam(value)
           THEN UNCHANGED <<method_parameters, required_params, optional_params,
                            required_src, optional_src>>
           ELSE /\ method_parameters' =
                       [method_parameters EXCEPT !.items[pi].v = ValueAfter(value)]
                /\ IF IsRequired(parameter_dict)
                   THEN /\ required_params' =
                               ListAppend(required_params,
                                          DictPop(parameter_dict, "required"))
                        /\ required_src' = ListAppend(required_src, pi)
                        /\ UNCHANGED <<optional_params, optional_src>>
                   ELSE /\ optional_params' = ListAppend(optional_params, parameter_dict)
                        /\ optional_src' = ListAppend(optional_src, pi)
                        /\ UNCHANGED <<required_params, required_src>>
    /\ pi' = pi + 1
    /\ UNCHANGED <<pmode, rvars, mvars, dvars, cvars>>

\* return required_params, optional_params
ParamsReturn ==
    /\ pmode = "loop"
    /\ pi > Len(method_parameters.items)
    /\ pmode' = "returned"
    /\ UNCHANGED <<method_parameters, pi, required_params, optional_params,
                   required_src, optional_src, rvars, mvars, dvars, cvars>>

ResolverOff ==
    /\ schemas = <<>>
    /\ resolved_schemas = <<>>
    /\ ri = 1
    /\ stack = <<>>
    /\ heap = <<>>
    /\ mode = "off"
    /\ arg = None
    /\ argSeen = 0

\* a call get_api_method_parameters(method_parameters)
InitParams ==
    /\ \/ method_parameters = None
       \/ \E n \in 0..MaxParams : \E ks \in KeySeqs(n) : \E vs \in [1..n -> ParamValues] :
              method_parameters = Dict(ZipItems(ks, vs, 1))
    /\ pi = 0
    /\ required_params = <<>>
    /\ optional_params = <<>>
    /\ required_src = <<>>
    /\ optional_src = <<>>
    /\ pmode = "entry"
    /\ ResolverOff
    /\ MethodsOff
    /\ DriverOff
    /\ CsvOff

NextParams ==
    \/ ParamsEntry
    \/ ParamsIter
    \/ ParamsReturn

SpecParams == InitParams /\ [][NextParams]_vars

(***************************************************************************)
(* get_request_response_schemas                                            *)
(***************************************************************************)
\* d.get(key, default)
DictGet(d, key, default) == IF HasKey(d, key) THEN GetKey(d, key) ELSE default

\* schemas_resolver.get_resolved(ref_schema) raises: dict.get cannot hash the name
GetResolvedRaises(ref_schema) == ~Hashable(ref_schema)

\* schemas_resolver.get_resolved(ref_schema): self.resolved_schemas.get(schema_name)
GetResolved(table, ref_schema) == SchemasGet(table, ref_schema)

\* `"$ref" in attrs` raises: True has no membership test
RefInRaises(attrs) == attrs.t = "bool"

\* "$ref" in attrs: a key of a mapping, an item of a list, a part of a string
\* (of the strings of the model only "$ref" itself holds it)
RefIn(attrs) ==
    CASE IsDict(attrs) -> HasKey(attrs, "$ref")
      [] IsList(attrs) -> \E i \in 1..Len(attrs.items) : attrs.items[i].v = Str("$ref")
      [] OTHER         -> attrs.t = "str" /\ attrs.s = "$ref"

\* the reference read but left in the mapping: attrs["$ref"]
PopRef_Kept(attrs) == attrs

\* attrs.pop("$ref"): the mapping once the reference is taken out
PopRef(attrs) == DictPop(attrs, "$ref")

\* the value stored under "schema": what get_resolved returns, or the reference
\* itself when get_resolved raises
SchemaValue(table, ref_schema) ==
    IF GetResolvedRaises(ref_schema) THEN ref_schema ELSE GetResolved(table, ref_schema)

\* ref_schema = attrs.pop("$ref"); attrs["schema"] = ...
ResolveRef(attrs, table) ==
    Dict(DictSet(PopRef(attrs).items, "schema", SchemaValue(table, GetKey(attrs, "$ref"))))

\* the statements on attrs raise, and the outer handler returns {}, {}
AttrsRaises(attrs) ==
    Truthy(attrs) /\ (RefInRaises(attrs) \/ (RefIn(attrs) /\ ~IsDict(attrs)))

\* attrs after `if attrs: if "$ref" in attrs: ...`
AttrsOut(attrs, table) ==
    IF Truthy(attrs) /\ RefIn(attrs) THEN ResolveRef(attrs, table) ELSE attrs

\* the key taken out of the method instead of read: method.pop(key, {})
SetAttrs_Popped(method, key, val) == DictPop(method, key)

\* method[key] = val for a key the method holds: the mapping is changed in place
SetAttrs(method, key, val) ==
    IF HasKey(method, key) THEN Dict(DictSet(method.items, key, val)) ELSE method

\* get_request_response_schemas(method, schemas_resolver): the pair returned,
\* and the method as the call leaves it
GetRequestResponseSchemas(method, table) ==
    LET request_attrs == DictGet(method, "request", Dict(<<>>))
        response_attrs == DictGet(method, "response", Dict(<<>>))
        failed(m) == [request_schema |-> Dict(<<>>), response_schema |-> Dict(<<>>),
                      method |-> m]
    IN  IF AttrsRaises(request_attrs) THEN failed(method)
        ELSE LET request_out == AttrsOut(request_attrs, table)
                 m1 == SetAttrs(method, "request", request_out)
             IN  IF AttrsRaises(response_attrs) THEN failed(m1)
                 ELSE LET response_out == AttrsOut(response_attrs, table)
                      IN  [request_schema |-> request_out,
                           response_schema |-> response_out,
                           method |-> SetAttrs(m1, "response", response_out)]

\* the table, had get_resolved taken the entry out: resolved_schemas.pop
TableAfterGet_Popped(table, ref_schema) ==
    SelectSeq(table, LAMBDA it : Str(it.k) # ref_schema)

\* the table as get_resolved leaves it: resolved_schemas.get stores nothing
TableAfterGet(table, ref_schema) == table

\* the table after the statements on attrs: get_resolved is called when a
\* mapping holds "$ref", and returns when the reference is hashable
TableAfterAttrs(attrs, table) ==
    IF Truthy(attrs) /\ IsDict(attrs) /\ RefIn(attrs)
          /\ ~GetResolvedRaises(GetKey(attrs, "$ref"))
    THEN TableAfterGet(table, GetKey(attrs, "$ref"))
    ELSE table

\* the table after get_request_response_schemas(method, schemas_resolver)
TableAfterSchemas(method, table) ==
    LET request_attrs == DictGet(method, "request", Dict(<<>>))
        response_attrs == DictGet(method, "response", Dict(<<>>))
    IN  IF AttrsRaises(request_attrs) THEN table
        ELSE TableAfterAttrs(response_attrs, TableAfterAttrs(request_attrs, table))

(***************************************************************************)
(* get_api_methods                                                         *)
(***************************************************************************)
\* method_parameters.items() raises: a truthy value that is not a mapping
ParametersRaise(mp) == Truthy(mp) /\ ~IsDict(mp)

RECURSIVE Classify(_, _, _, _)
\* the loop of get_api_method_parameters from entry i on
Classify(entries, i, required, optional) ==
    IF i > Len(entries) THEN <<required, optional>>
    ELSE LET parameter_dict == ParameterDict(entries[i].k, entries[i].v)
         IN  IF SkipParam(entries[i].v) THEN Classify(entries, i + 1, required, optional)
             ELSE IF IsRequired(parameter_dict)
             THEN Classify(entries, i + 1,
                           ListAppend(required, DictPop(parameter_dict, "required")),
                           optional)
             ELSE Classify(entries, i + 1, required, ListAppend(optional, parameter_dict))

\* get_api_method_parameters(method_parameters), for a call that returns
GetApiMethodParameters(mp) ==
    IF ~Truthy(mp) THEN <<<<>>, <<>>>> ELSE Classify(mp.items, 1, <<>>, <<>>)

\* ApiMethod(...): the descriptor of one method
CurrentMethod(resource_name, method_name, method, table) ==
    LET params == GetApiMethodParameters(DictGet(method, "parameters", Dict(<<>>)))
        rr == GetRequestResponseSchemas(method, table)
    IN  [resource_name |-> resource_name,
         method_name |-> Str(method_name),
         http_method |-> DictGet(method, "httpMethod", Str("")),
         path |-> DictGet(method, "path", Str("")),
         description |-> DictGet(method, "description", Str("")),
         required_params |-> params[1],
         optional_params |-> params[2],
         parameter_order |-> DictGet(method, "parameterOrder", List(<<>>)),
         request_schema |-> rr.request_schema,
         response_schema |-> rr.response_schema]

\* the field types of ApiMethod hold: str, Optional[str], List[str], Optional[dict]
ValidApiMethod(m) ==
    /\ m.resource_name.t = "str"
    /\ m.http_method.t = "str"
    /\ m.path.t = "str"
    /\ m.description.t \in {"str", "null"}
    /\ IsList(m.parameter_order)
    /\ \A i \in 1..Len(m.parameter_order.items) : m.parameter_order.items[i].v.t = "str"
    /\ m.request_schema.t \in {"dict", "null"}
    /\ m.response_schema.t \in {"dict", "null"}

\* the body of the inner try raises: method.get on a value that is no mapping,
\* the classifier raising, or the validation of ApiMethod failing
MethodFails(resource_name, method_name, method, table) ==
    \/ ~IsDict(method)
    \/ ParametersRaise(DictGet(method, "parameters", Dict(<<>>)))
    \/ ~ValidApiMethod(CurrentMethod(resource_name, method_name, method, table))

\* the method as one iteration of the inner loop leaves it
MethodAfter(method, table) ==
    IF IsDict(method) /\ ~ParametersRaise(DictGet(method, "parameters", Dict(<<>>)))
    THEN GetRequestResponseSchemas(method, table).method
    ELSE method

\* the resolved table as one iteration of the inner loop leaves it
TableAfter(method, table) ==
    IF IsDict(method) /\ ~ParametersRaise(DictGet(method, "parameters", Dict(<<>>)))
    THEN TableAfterSchemas(method, table)
    ELSE table

\* a failed method ends the loop over its resource: break
NextMethod_Break(j, n, failed) == IF failed THEN n + 1 ELSE j + 1

\* the inner loop goes on to the next method, after append and after continue
NextMethod(j, n, failed) == j + 1

\* isinstance(resource, dict), and resource["resource_name"], resource["methods"]
\* raise no KeyError
ResourceRead(resource) ==
    IsDict(resource) /\ HasKey(resource, "resource_name") /\ HasKey(resource, "methods")

\* resources_with_methods[i]
ResourceAt(i) == resources_with_methods.items[i].v

\* the position of the key "methods" in entry i
MethodsKey(i) ==
    CHOOSE k \in 1..Len(ResourceAt(i).items) : ResourceAt(i).items[k].k = "methods"

\* the resource is skipped: it is no mapping, or a key is missing
SkipResource ==
    /\ gmode = "resources"
    /\ gi <= Len(resources_with_methods.items)
    /\ ~ResourceRead(ResourceAt(gi))
    /\ gi' = gi + 1
    /\ UNCHANGED <<resources_with_methods, resources_in, returned_before,
                   formatted_api_endpoints,
                   endpoint_src, gj, gmode, rvars, pvars, dvars, cvars>>

\* both keys are read and `for method_name, method in methods.items()` starts;
\* nothing catches what methods.items() raises
EnterResource ==
    /\ gmode = "resources"
    /\ gi <= Len(resources_with_methods.items)
    /\ ResourceRead(ResourceAt(gi))
    /\ IF IsDict(GetKey(ResourceAt(gi), "methods"))
       THEN gmode' = "methods" /\ gj' = 1
       ELSE gmode' = "raised" /\ gj' = gj
    /\ UNCHANGED <<resources_with_methods, resources_in, returned_before,
                   formatted_api_endpoints,
                   endpoint_src, gi, rvars, pvars, dvars, cvars>>

\* one iteration of the inner loop: the descriptor is appended, or the failure
\* is logged and the loop continues
MethodStep ==
    /\ gmode = "methods"
    /\ LET resource_name == GetKey(ResourceAt(gi), "resource_name")
           methods == GetKey(ResourceAt(gi), "methods")
       IN  /\ gj <= Len(methods.items)
           /\ LET method_name == methods.items[gj].k
                  method == methods.items[gj].v
                  failed == MethodFails(resource_name, method_name, method, resolved_schemas)
              IN  /\ resources_with_methods' =
                         [resources_with_methods EXCEPT
                             !.items[gi].v.items[MethodsKey(gi)].v.items[gj].v =
                                 MethodAfter(method, resolved_schemas)]
                  /\ IF failed
                     THEN UNCHANGED <<formatted_api_endpoints, endpoint_src>>
                     ELSE /\ formatted_api_endpoints' =
                                 ListAppend(formatted_api_endpoints,
                                            CurrentMethod(resource_name, method_name,
                                                          method, resolved_schemas))
                          /\ endpoint_src' = ListAppend(endpoint_src, <<gi, gj>>)
                  /\ resolved_schemas' = TableAfter(method, resolved_schemas)
                  /\ gj' = NextMethod(gj, Len(methods.items), failed)
    /\ UNCHANGED <<schemas, ri, stack, heap, mode, arg, argSeen>>
    /\ UNCHANGED <<resources_in, returned_before, gi, gmode, pvars, dvars, cvars>>

\* the inner loop is exhausted: the outer loop goes on
ResourceDone ==
    /\ gmode = "methods"
    /\ gj > Len(GetKey(ResourceAt(gi), "methods").items)
    /\ gi' = gi + 1
    /\ gmode' = "resources"
    /\ UNCHANGED <<resources_with_methods, resources_in, returned_before,
                   formatted_api_endpoints,
                   endpoint_src, gj, rvars, pvars, dvars, cvars>>

\* return formatted_api_endpoints
MethodsReturn ==
    /\ gmode = "resources"
    /\ gi > Len(resources_with_methods.items)
    /\ gmode' = "returned"
    /\ UNCHANGED <<resources_with_methods, resources_in, returned_before,
                   formatted_api_endpoints,
                   endpoint_src, gi, gj, rvars, pvars, dvars, cvars>>

(***************************************************************************)
(* Inputs of get_api_methods: a resolver whose table holds the schema      *)
(* "Event", and every list of at most MaxResources entries of at most      *)
(* MaxMethods methods in total, an entry that cannot be read counting as   *)
(* one method.                                                             *)
(***************************************************************************)
EventSchema == Dict(<<Item("type", Str("object"))>>)

EventTable == <<Item("Event", EventSchema)>>

\* a method mapping with the given optional entries
Method(more) == Dict(<<Item("httpMethod", Str("GET")), Item("path", Str("p"))>> \o more)

\* what `request` may hold: mappings with and without "$ref" (to a schema of
\* the table beside another key, to a missing one, to a name that is a
\* sequence), and a value that is no mapping
AttrsValues ==
    {Dict(<<Item("description", Str("d")), Item("$ref", Str("Event"))>>),
     RefNode(Str("Missing")),
     RefNode(List(<<>>)),
     Dict(<<Item("type", Str("object"))>>),
     Str("x")}

\* the values of a methods mapping: one aspect varied at a time
MethodValues ==
    {Method(<<>>), Str("x")}
        \cup {Method(<<Item("request", a)>>) : a \in AttrsValues}
        \cup {Method(<<Item("response", a)>>) :
                 a \in {RefNode(Str("Event")), RefNode(Str("Missing"))}}
        \cup {Method(<<Item("request", RefNode(Str("Event"))),
                       Item("response", List(<<Str("$ref")>>))>>)}
        \cup {Method(<<Item("parameters", a)>>) :
                 a \in {Dict(<<Item("q", Dict(<<Item("required", Bool("true"))>>))>>),
                        List(<<Str("x")>>)}}
        \cup {Dict(<<Item("httpMethod", List(<<>>))>>)}

ResourceNames == <<"acl", "events", "calendars", "settings">>

MethodNames == <<"get", "insert", "delete", "list">>

\* the entries get_api_methods cannot read, or whose methods are no mapping
BadEntries ==
    <<Str("x"),
      Dict(<<Item("methods", Dict(<<>>))>>),
      Dict(<<Item("resource_name", Str("acl"))>>),
      Dict(<<Item("resource_name", Str("acl")), Item("methods", List(<<>>))>>)>>

\* the entry get_api_resources_with_methods builds for the i-th resource
GoodEntry(i, methods) ==
    Dict(<<Item("resource_name", Str(ResourceNames[i])), Item("methods", Dict(methods))>>)

RECURSIVE SumFrom(_, _)
\* f[i] + f[i+1] + ...
SumFrom(f, i) == IF i > Len(f) THEN 0 ELSE f[i] + SumFrom(f, i + 1)

RECURSIVE BuildList(_, _, _, _, _)
\* the list whose i-th entry is BadEntries[kinds[i]], or for kinds[i] = 0 the
\* entry of the next counts[i] methods of vs
BuildList(kinds, counts, vs, i, used) ==
    IF i > Len(kinds) THEN <<>>
    ELSE IF kinds[i] = 0
    THEN <<GoodEntry(i, ZipItems(MethodNames, SubSeq(vs, used + 1, used + counts[i]), 1))>>
             \o BuildList(kinds, counts, vs, i + 1, used + counts[i])
    ELSE <<BadEntries[kinds[i]]>> \o BuildList(kinds, counts, vs, i + 1, used)

\* the resolver after SchemaResolver(EventTable).resolve_all()
ResolverDone ==
    /\ schemas = EventTable
    /\ resolved_schemas = EventTable
    /\ ri = 2
    /\ stack = <<>>
    /\ heap = <<{}, {}>>
    /\ mode = "done"
    /\ arg = EventSchema
    /\ argSeen = 2

\* a call get_api_methods(resources_with_methods, schemas_resolver)
InitMethods ==
    /\ \E n \in 0..MaxResources :
       \E kinds \in [1..n -> 0..Len(BadEntries)] :
       \E counts \in [1..n -> 0..MaxMethods] :
           /\ \A i \in 1..n : kinds[i] # 0 => counts[i] = 1
           /\ SumFrom(counts, 1) <= MaxMethods
           /\ \E vs \in [1..SumFrom([i \in 1..n |-> IF kinds[i] = 0 THEN counts[i] ELSE 0], 1)
                            -> MethodValues] :
                  /\ resources_with_methods = List(BuildList(kinds, counts, vs, 1, 0))
                  /\ resources_in = resources_with_methods
    /\ returned_before = <<>>
    /\ formatted_api_endpoints = <<>>
    /\ endpoint_src = <<>>
    /\ gi = 1
    /\ gj = 0
    /\ gmode = "resources"
    /\ ResolverDone
    /\ ParamsOff
    /\ DriverOff
    /\ CsvOff

NextMethods ==
    \/ SkipResource
    \/ EnterResource
    \/ MethodStep
    \/ ResourceDone
    \/ MethodsReturn

SpecMethods == InitMethods /\ [][NextMethods]_vars

\* get_api_methods has returned and is called once more, with the same list
\* object, as the first call left it, and the same resolver
GetApiMethodsAgain ==
    /\ gmode = "returned"
    /\ returned_before = <<>>
    /\ returned_before' = <<formatted_api_endpoints>>
    /\ resources_in' = resources_with_methods
    /\ formatted_api_endpoints' = <<>>
    /\ endpoint_src' = <<>>
    /\ gi' = 1
    /\ gj' = 0
    /\ gmode' = "resources"
    /\ UNCHANGED <<resources_with_methods, rvars, pvars, dvars, cvars>>

NextRepeat ==
    \/ SkipResource
    \/ EnterResource
    \/ MethodStep
    \/ ResourceDone
    \/ MethodsReturn
    \/ GetApiMethodsAgain

\* two calls of get_api_methods in a row
SpecRepeat == InitMethods /\ [][NextRepeat]_vars

(***************************************************************************)
(* load_file_data, extract_top_level_attributes and                        *)
(* get_api_resources_with_methods                                          *)
(***************************************************************************)
\* a file whose bytes are no JSON text
Malformed == [t |-> "text", s |-> "{", items |-> <<>>]

\* json.load(json_file) raises JSONDecodeError
JsonLoadRaises(f) == f.t = "text"

\* a field of CalendarMetadataParents accepts v: Optional[dict]
OptionalDict(v) == v.t \in {"dict", "null"}

\* only a missing section is refused: resources is None
NoResources_None(resources) == resources.t = "null"

\* not parent_metadata.resources
NoResources(resources) == ~Truthy(resources)

\* extract_top_level_attributes(data) raises: data.get on a value that is no
\* mapping, a section CalendarMetadataParents refuses, or no resources
ExtractRaises(d) ==
    \/ ~IsDict(d)
    \/ ~OptionalDict(DictGet(d, "parameters", Dict(<<>>)))
    \/ ~OptionalDict(DictGet(d, "schemas", Dict(<<>>)))
    \/ ~OptionalDict(DictGet(d, "resources", Dict(<<>>)))
    \/ NoResources(DictGet(d, "resources", Dict(<<>>)))

\* CalendarMetadataParents(parameters=..., schemas=..., resources=...)
ParentMetadata(d) ==
    [parameters |-> DictGet(d, "parameters", Dict(<<>>)),
     schemas |-> DictGet(d, "schemas", Dict(<<>>)),
     resources |-> DictGet(d, "resources", Dict(<<>>))]

RECURSIVE ResourcesFrom(_, _)
\* the loop of get_api_resources_with_methods from entry i on: a resource
\* that is no mapping (resource.get raises) or whose methods are no mapping
\* is skipped
ResourcesFrom(entries, i) ==
    IF i > Len(entries) THEN <<>>
    ELSE LET resource == entries[i].v
         IN  IF ~IsDict(resource) THEN ResourcesFrom(entries, i + 1)
             ELSE LET methods == DictGet(resource, "methods", Dict(<<>>))
                  IN  IF ~IsDict(methods) THEN ResourcesFrom(entries, i + 1)
                      ELSE <<Item("", Dict(<<Item("resource_name", Str(entries[i].k)),
                                             Item("methods", methods)>>))>>
                               \o ResourcesFrom(entries, i + 1)

\* get_api_resources_with_methods(parent_metadata), for a call that returns
ResourcesWithMethods(pm) ==
    [t |-> "list", s |-> "", items |-> ResourcesFrom(pm.resources.items, 1)]

\* get_api_resources_with_methods(parent_metadata) raises ValueError
GetApiResourcesRaises(pm) ==
    \/ NoResources(pm.resources)
    \/ ResourcesFrom(pm.resources.items, 1) = <<>>

(***************************************************************************)
(* parse_data and main_entry_point_function                                *)
(***************************************************************************)
\* the exception leaves main_entry_point_function: raise
MainExcept_Raise == Str("raised")

\* except Exception: return None
MainExcept == None

\* the test of the parsed list forgotten
NoMethods_Never(parsed_api_methods) == FALSE

\* not parsed_api_methods
NoMethods(parsed_api_methods) == parsed_api_methods = <<>>

\* the next statement runs while resolve_all is still at work
ResolveAllEnded_Early == TRUE

\* schemas_resolver.resolve_all() has returned or raised
ResolveAllEnded == mode \in {"done", "raised"}

\* the response of a successful run
Response(parsed_api_methods) ==
    [json_save_path |-> "json", total_count_api_methods |-> Len(parsed_api_methods),
     csv_save_path |-> "csv"]

\* parse_data's except clause, were it to swallow the exception and hand
\* back an empty result
Raise_Returned(stage) ==
    /\ parse_result' = "returned"
    /\ failure' = stage
    /\ response' = None
    /\ pc' = "done"

\* a stage of parse_data raises: parse_data logs and re-raises, and
\* main_entry_point_function catches the exception
Raise(stage) ==
    /\ parse_result' = "raised"
    /\ failure' = stage
    /\ response' = MainExcept
    /\ pc' = "done"

\* the test of the path forgotten: the run goes on without a file
NoJsonPath_Never(path) == FALSE

\* if not json_save_path
NoJsonPath(path) == ~Truthy(path)

\* json_save_path = fetch_api_data(): a path, None, or an exception
FetchApiData ==
    /\ pc = "fetch"
    /\ calls' = Append(calls, "fetch_api_data")
    /\ \E outcome \in {"path", "none", "raised"} :
           IF outcome = "raised"
           THEN /\ pc' = "done"
                /\ response' = MainExcept
                /\ failure' = "fetch_api_data"
                /\ UNCHANGED json_save_path
           ELSE LET path == IF outcome = "path" THEN Str("json") ELSE None
                IN  /\ json_save_path' = path
                    /\ IF NoJsonPath(path)
                       THEN pc' = "done" /\ response' = None
                       ELSE pc' = "load" /\ UNCHANGED response
                    /\ UNCHANGED failure
    /\ UNCHANGED <<json_file, data, parent_metadata, parse_result, rvars, pvars, mvars, cvars>>

\* parse_data(json_path): data = load_file_data(json_path)
LoadFileData ==
    /\ pc = "load"
    /\ calls' = calls \o <<"parse_data", "load_file_data">>
    /\ IF JsonLoadRaises(json_file)
       THEN Raise("load_file_data") /\ UNCHANGED data
       ELSE /\ data' = json_file
            /\ pc' = "extract"
            /\ parse_result' = "running"
            /\ UNCHANGED <<response, failure>>
    /\ UNCHANGED <<json_save_path, json_file, parent_metadata, rvars, pvars, mvars, cvars>>

\* parent_metadata = extract_top_level_attributes(data)
ExtractTopLevelAttributes ==
    /\ pc = "extract"
    /\ calls' = Append(calls, "extract_top_level_attributes")
    /\ IF ExtractRaises(data)
       THEN Raise("extract_top_level_attributes") /\ UNCHANGED parent_metadata
       ELSE /\ parent_metadata' = ParentMetadata(data)
            /\ pc' = "construct"
            /\ UNCHANGED <<parse_result, response, failure>>
    /\ UNCHANGED <<json_save_path, json_file, data, rvars, pvars, mvars, cvars>>

\* schemas_resolver = SchemaResolver(schemas=parent_metadata.schemas) and the
\* call of resolve_all(), which raises at once when schemas is None
ResolveAll ==
    /\ pc = "construct"
    /\ calls' = calls \o <<"SchemaResolver", "resolve_all">>
    /\ IF parent_metadata.schemas.t = "null"
       THEN /\ Raise("resolve_all")
            /\ mode' = "raised"
            /\ UNCHANGED schemas
       ELSE /\ schemas' = parent_metadata.schemas.items
            /\ mode' = "idle"
            /\ pc' = "resolve_all"
            /\ UNCHANGED <<parse_result, response, failure>>
    /\ UNCHANGED <<resolved_schemas, ri, stack, heap, arg, argSeen>>
    /\ UNCHANGED <<json_save_path, json_file, data, parent_metadata, pvars, mvars, cvars>>

\* resolve_all() has ended: resources_with_methods =
\* get_api_resources_with_methods(parent_metadata), and get_api_methods is called
GetApiResourcesWithMethods ==
    /\ pc = "resolve_all"
    /\ ResolveAllEnded
    /\ IF mode = "raised"
       THEN Raise("resolve_all") /\ UNCHANGED <<calls, mvars>>
       ELSE IF GetApiResourcesRaises(parent_metadata)
       THEN /\ calls' = Append(calls, "get_api_resources_with_methods")
            /\ Raise("get_api_resources_with_methods")
            /\ UNCHANGED mvars
       ELSE /\ calls' = calls \o <<"get_api_resources_with_methods", "get_api_methods">>
            /\ resources_with_methods' = ResourcesWithMethods(parent_metadata)
            /\ resources_in' = ResourcesWithMethods(parent_metadata)
            /\ gi' = 1
            /\ gmode' = "resources"
            /\ pc' = "get_api_methods"
            /\ UNCHANGED <<returned_before, formatted_api_endpoints, endpoint_src, gj,
                           parse_result, response, failure>>
    /\ UNCHANGED <<json_save_path, json_file, data, parent_metadata, rvars, pvars, cvars>>

\* get_api_methods has ended: parse_data returns the list, and
\* main_entry_point_function returns None when it is empty
ParseDataReturn ==
    /\ pc = "get_api_methods"
    /\ gmode \in {"returned", "raised"}
    /\ IF gmode = "raised"
       THEN Raise("get_api_methods")
       ELSE /\ parse_result' = "returned"
            /\ IF NoMethods(formatted_api_endpoints)
               THEN pc' = "done" /\ response' = None
               ELSE pc' = "export" /\ UNCHANGED response
            /\ UNCHANGED failure
    /\ UNCHANGED <<json_save_path, json_file, data, parent_metadata, calls, rvars, pvars,
                   mvars, cvars>>

\* csv_save_path = convert_api_methods_to_csv(data=parsed_api_methods): the
\* file is written, or the call raises (no data, or the write fails)
ConvertApiMethodsToCsv ==
    /\ pc = "export"
    /\ calls' = Append(calls, "convert_api_methods_to_csv")
    /\ pc' = "done"
    /\ \E written \in BOOLEAN :
           IF written /\ formatted_api_endpoints # <<>>
           THEN response' = Response(formatted_api_endpoints) /\ UNCHANGED failure
           ELSE response' = MainExcept /\ failure' = "convert_api_methods_to_csv"
    /\ UNCHANGED <<json_save_path, json_file, data, parent_metadata, parse_result, rvars,
                   pvars, mvars, cvars>>

(***************************************************************************)
(* Inputs of main_entry_point_function: a file that is no JSON, a document *)
(* that is no mapping, and the documents with or without a schemas section *)
(* and with a resources section of at most MaxResources resources.         *)
(***************************************************************************)
\* the schemas sections: none (<<>>), null, a mapping whose Event refers to
\* Time inside a sequence, and a mapping resolve_all raises on
SchemasSections ==
    {<<>>,
     <<Item("schemas", None)>>,
     <<Item("schemas", Dict(<<Item("Event", Dict(<<Item("items",
                                       List(<<RefNode(Str("Time"))>>))>>)),
                              Item("Time", EventSchema)>>))>>,
     <<Item("schemas", Dict(<<Item("Event", RefNode(List(<<>>)))>>))>>}

\* the values of a resource: without methods, with methods that are a
\* sequence, no mapping at all, and with a methods mapping of no or one method
ResourceValues ==
    {Dict(<<>>), Dict(<<Item("methods", List(<<>>))>>), Str("x"),
     Dict(<<Item("methods", Dict(<<>>))>>)}
        \cup {Dict(<<Item("methods", Dict(<<Item("get", m)>>))>>) :
                 m \in {Method(<<>>), Method(<<Item("request", RefNode(Str("Event")))>>),
                        Str("x")}}

\* main_entry_point_function is called
InitMain ==
    /\ \/ json_file \in {Malformed, List(<<>>)}
       \/ \E ss \in SchemasSections :
             \/ json_file = Dict(ss)
             \/ json_file = Dict(ss \o <<Item("resources", None)>>)
             \/ \E n \in 0..MaxResources : \E vs \in [1..n -> ResourceValues] :
                    json_file = Dict(ss \o <<Item("resources",
                                                  Dict(ZipItems(ResourceNames, vs, 1)))>>)
    /\ json_save_path = None
    /\ data = None
    /\ parent_metadata = None
    /\ pc = "fetch"
    /\ calls = <<>>
    /\ parse_result = "off"
    /\ response = None
    /\ failure = ""
    /\ ResolverOff
    /\ ParamsOff
    /\ MethodsOff
    /\ CsvOff

\* the entries get_api_resources_with_methods builds are read by get_api_methods
\* without exception, so SkipResource has no part in a run
NextMain ==
    \/ FetchApiData
    \/ LoadFileData
    \/ ExtractTopLevelAttributes
    \/ ResolveAll
    \/ ResolveAllStep
    \/ ResolveAllReturn
    \/ CallList
    \/ CallScalar
    \/ CallRef
    \/ CallDict
    \/ RetTop
    \/ RetRef
    \/ RetList
    \/ RetDict
    \/ GetApiResourcesWithMethods
    \/ EnterResource
    \/ MethodStep
    \/ ResourceDone
    \/ MethodsReturn
    \/ ParseDataReturn
    \/ ConvertApiMethodsToCsv

SpecMain == InitMain /\ [][NextMain]_vars

(***************************************************************************)
(* convert_api_methods_to_csv (convert_data_to_csv.py).  A row of data is  *)
(* the mapping its model_dump() returns; the file is the sequence of its   *)
(* lines, each line the sequence of its fields as csv.reader gives them    *)
(* back.                                                                   *)
(***************************************************************************)
MaxRows == 2        \* rows of the list passed to convert_api_methods_to_csv

RECURSIVE Dumps(_)
RECURSIVE DumpsItems(_, _, _)
\* json.dumps(value): the JSON text, items separated by ", ", keys by ": "
Dumps(value) ==
    CASE value.t = "str"  -> "\"" \o value.s \o "\""
      [] value.t = "null" -> "null"
      [] value.t = "list" -> "[" \o DumpsItems(value.items, 1, FALSE) \o "]"
      [] value.t = "dict" -> "{" \o DumpsItems(value.items, 1, TRUE) \o "}"
      [] OTHER            -> value.s

\* the text of the items from position i on
DumpsItems(items, i, keyed) ==
    IF i > Len(items) THEN ""
    ELSE (IF i > 1 THEN ", " ELSE "")
             \o (IF keyed THEN "\"" \o items[i].k \o "\": " ELSE "")
             \o Dumps(items[i].v)
             \o DumpsItems(items, i + 1, keyed)

\* the field csv.writer writes for a value: None gives the empty field, a
\* string itself, any other scalar its str()
CsvText(value) ==
    CASE value.t = "null" -> ""
      [] value.t = "bool" -> IF value.s = "true" THEN "True" ELSE "False"
      [] OTHER            -> value.s

\* processed_row[key]: "" for a falsy value, the JSON text of a mapping or
\* a sequence, the value itself otherwise
ProcessedValue(value) ==
    IF ~Truthy(value) THEN Str("")
    ELSE IF IsDict(value) \/ IsList(value) THEN Str(Dumps(value))
    ELSE value

\* processed_row, built from dict_data = row_dict.model_dump()
ProcessedRow(dict_data) ==
    Dict([i \in 1..Len(dict_data.items) |->
              Item(dict_data.items[i].k, ProcessedValue(dict_data.items[i].v))])

\* list(dict(data[0]).keys())
ColumnNames(row) == [i \in 1..Len(row.items) |-> row.items[i].k]

\* writer.writerow(processed_row) raises ValueError: a key that is no fieldname
WriteRowRaises(processed_row, fieldnames) ==
    \E i \in 1..Len(processed_row.items) :
        processed_row.items[i].k \notin {fieldnames[j] : j \in 1..Len(fieldnames)}

\* the line writer.writerow(processed_row) writes: one field per fieldname,
\* the empty field for a key the row lacks
WrittenRow(processed_row, fieldnames) ==
    [j \in 1..Len(fieldnames) |-> CsvText(DictGet(processed_row, fieldnames[j], Str("")))]

\* the exception leaves the function: both handlers log and re-raise
CsvRaise(error) ==
    /\ cmode' = "raised"
    /\ csv_error' = error

\* the empty list is rejected; otherwise the columns are read off the first
\* row, the file is opened and the header is written, unless open() fails
CsvOpen ==
    /\ cmode = "called"
    /\ IF csv_data = <<>>
       THEN CsvRaise("ValueError") /\ UNCHANGED <<column_names, csv_file, ci>>
       ELSE /\ column_names' = ColumnNames(csv_data[1])
            /\ \E opened \in BOOLEAN :
                   IF opened
                   THEN /\ csv_file' = [exists |-> TRUE,
                                        lines |-> <<ColumnNames(csv_data[1])>>]
                        /\ ci' = 1
                        /\ cmode' = "rows"
                        /\ UNCHANGED csv_error
                   ELSE CsvRaise("IOError") /\ UNCHANGED <<csv_file, ci>>
    /\ UNCHANGED <<csv_data, rvars, pvars, mvars, dvars>>

\* one iteration of `for row_dict in data`: the row is flattened and
\* written, unless the write fails
CsvWriteRow ==
    /\ cmode = "rows"
    /\ ci <= Len(csv_data)
    /\ LET processed_row == ProcessedRow(csv_data[ci])
       IN  IF WriteRowRaises(processed_row, column_names)
           THEN CsvRaise("ValueError") /\ UNCHANGED <<csv_file, ci>>
           ELSE \E written \in BOOLEAN :
                    IF written
                    THEN /\ csv_file' =
                               [csv_file EXCEPT
                                   !.lines = ListAppend(@, WrittenRow(processed_row,
                                                                      column_names))]
                         /\ ci' = ci + 1
                         /\ UNCHANGED <<cmode, csv_error>>
                    ELSE CsvRaise("IOError") /\ UNCHANGED <<csv_file, ci>>
    /\ UNCHANGED <<csv_data, column_names, rvars, pvars, mvars, dvars>>

\* the loop is exhausted and the file is closed: return filepath
CsvReturn ==
    /\ cmode = "rows"
    /\ ci > Len(csv_data)
    /\ cmode' = "returned"
    /\ UNCHANGED <<csv_data, column_names, csv_file, ci, csv_error,
                   rvars, pvars, mvars, dvars>>

\* the values of the field "parameters" of a row: scalars, falsy or not,
\* and mappings and sequences, empty or not
FieldValues ==
    {Str("x"), Str(""), None, Bool("true"), Bool("false"), IntVal("0"), IntVal("101"),
     Dict(<<>>), List(<<>>),
     Dict(<<Item("key", IntVal("101")), Item("name", Str("test name"))>>),
     List(<<Str("a"), None>>)}

\* the values of the field "name" of a row
NameValues == {Str("get"), Str("post")}

\* convert_api_methods_to_csv(data) is called with at most MaxRows rows
\* of the fields name and parameters; no file exists at filepath
InitCsv ==
    /\ \E n \in 0..MaxRows : \E names \in [1..n -> NameValues] :
           \E values \in [1..n -> FieldValues] :
               csv_data = [i \in 1..n |->
                               Dict(<<Item("name", names[i]),
                                      Item("parameters", values[i])>>)]
    /\ column_names = <<>>
    /\ csv_file = [exists |-> FALSE, lines |-> <<>>]
    /\ ci = 0
    /\ cmode = "called"
    /\ csv_error = ""
    /\ ResolverOff
    /\ ParamsOff
    /\ MethodsOff
    /\ DriverOff

NextCsv ==
    \/ CsvOpen
    \/ CsvWriteRow
    \/ CsvReturn

SpecCsv == InitCsv /\ [][NextCsv]_vars

(***************************************************************************)
(* Vocabulary of the resolver's properties.                                *)
(***************************************************************************)
RECURSIVE ContainsRefKey(_)
\* v holds a "$ref" key at some depth, inside mappings or sequences
ContainsRefKey(v) ==
    \/ IsDict(v) /\ HasKey(v, "$ref")
    \/ \E i \in 1..Len(v.items) : ContainsRefKey(v.items[i].v)

RECURSIVE Contains(_, _)
\* v is, or holds at some depth, the value m
Contains(v, m) ==
    \/ v = m
    \/ \E i \in 1..Len(v.items) : Contains(v.items[i].v, m)

RECURSIVE RefValues(_)
\* the values of the "$ref" nodes of v
RefValues(v) ==
    IF IsDict(v) /\ HasKey(v, "$ref") THEN {GetKey(v, "$ref")}
    ELSE UNION {RefValues(v.items[i].v) : i \in 1..Len(v.items)}

ValueOf(m, name) == m[CHOOSE i \in 1..Len(m) : m[i].k = name].v

\* schema a holds a reference naming b
References(a, b) == Str(b) \in RefValues(ValueOf(schemas, a))

RECURSIVE ReachedIn(_, _)
\* the names reached from the names S by at most n references
ReachedIn(S, n) ==
    IF n = 0 THEN S
    ELSE ReachedIn(S \cup {b \in Keys(schemas) : \E a \in S : References(a, b)}, n - 1)

ReachedFrom(a) ==
    ReachedIn({b \in Keys(schemas) : References(a, b)}, Len(schemas))

Acyclic == \A a \in Keys(schemas) : a \notin ReachedFrom(a)

AllRefsDefined ==
    \A a \in Keys(schemas) : \A r \in RefValues(ValueOf(schemas, a)) :
        r.t = "str" /\ r.s \in Keys(schemas)

\* the names the calls on the stack have dereferenced: the resolution path
PathRefs ==
    {GetKey(stack[i].node, "$ref") : i \in {j \in 1..Len(stack) : stack[j].kind = "ref"}}

CallOnRef == mode = "call" /\ IsDict(arg) /\ HasKey(arg, "$ref")

(***************************************************************************)
(* C1: for an acyclic schemas mapping whose referenced names are all       *)
(* defined, no entry of the resolved table holds a "$ref" key at any       *)
(* depth once resolve_all has returned.                                    *)
(***************************************************************************)
C1_NoRefLeft ==
    (mode = "done" /\ Acyclic /\ AllRefsDefined)
        => \A i \in 1..Len(resolved_schemas) : ~ContainsRefKey(resolved_schemas[i].v)

(***************************************************************************)
(* C2: resolve_all terminates (it returns, or its call ends by an error)   *)
(* for every schemas mapping, cyclic ones included.                        *)
(***************************************************************************)
C2_Terminates == <>(mode \in {"done", "raised"})

C2_Witness ==
    /\ mode = "done"
    /\ Len(schemas) = 3
    /\ References("A", "B") /\ References("B", "C") /\ References("C", "A")
    /\ \E i \in 1..Len(schemas) : ~HasKey(schemas[i].v, "$ref")

(***************************************************************************)
(* C3: when a references b and b references a, the resolved value of a     *)
(* holds a literal marker {"$ref": a} or {"$ref": b}; and for              *)
(* {A: {$ref: B}, B: {$ref: A}} the resolved value of A is one marker.     *)
(***************************************************************************)
C3_CycleLeavesMarker ==
    mode = "done" =>
        /\ \A a, b \in Keys(schemas) :
              (References(a, b) /\ References(b, a)) =>
                  \/ Contains(ValueOf(resolved_schemas, a), RefNode(Str(a)))
                  \/ Contains(ValueOf(resolved_schemas, a), RefNode(Str(b)))
        /\ schemas = <<Item("A", RefNode(Str("B"))), Item("B", RefNode(Str("A")))>>
              => ValueOf(resolved_schemas, "A") \in {RefNode(Str("A")), RefNode(Str("B"))}

C3_Witness ==
    /\ mode = "done"
    /\ schemas = <<Item("A", RefNode(Str("B"))), Item("B", RefNode(Str("A")))>>
    /\ ValueOf(resolved_schemas, "A") = RefNode(Str("B"))

(***************************************************************************)
(* C4: siblings are resolved independently: a name is treated as already   *)
(* seen only if it was dereferenced on the way to the node, never because  *)
(* a sibling dereferenced it.                                              *)
(***************************************************************************)
C4_SiblingsIndependent ==
    (/\ CallOnRef
     /\ Hashable(GetKey(arg, "$ref"))
     /\ InSeen(heap, argSeen, GetKey(arg, "$ref"))
     /\ Truthy(SchemasGet(schemas, GetKey(arg, "$ref"))))
        => GetKey(arg, "$ref") \in PathRefs

(***************************************************************************)
(* C5: a "$ref" node naming a key R of schemas that is not on the          *)
(* resolution path resolves to the resolution of schemas[R] with R added   *)
(* to the path, whatever value schemas[R] holds.                           *)
(***************************************************************************)
C5_RefDereferenced ==
    [][(/\ CallOnRef
        /\ GetKey(arg, "$ref").t = "str"
        /\ GetKey(arg, "$ref").s \in Keys(schemas)
        /\ GetKey(arg, "$ref") \notin PathRefs)
          => /\ mode' = "call"
             /\ arg' = ValueOf(schemas, GetKey(arg, "$ref").s)
             /\ GetKey(arg, "$ref") \in heap'[argSeen']
             /\ stack' = Append(stack, Frame("ref", arg, argSeen))]_vars

(***************************************************************************)
(* C6: a "$ref" node naming R that is not a key of schemas resolves to     *)
(* exactly {"$ref": R}: no error, and the caller goes on with that value.  *)
(***************************************************************************)
C6_MissingRefIsMarker ==
    [][(/\ CallOnRef
        /\ GetKey(arg, "$ref").t = "str"
        /\ GetKey(arg, "$ref").s \notin Keys(schemas))
          => /\ mode' = "ret"
             /\ arg' = RefNode(GetKey(arg, "$ref"))
             /\ stack' = stack
             /\ resolved_schemas' = resolved_schemas]_vars

C6_Witness ==
    /\ mode = "ret"
    /\ \E n \in {SchemaNames[i] : i \in 1..Len(SchemaNames)} \ Keys(schemas) :
          arg = RefNode(Str(n))
    /\ Top.kind \in {"list", "dict"}
    /\ Top.idx < Len(Top.node.items)

(***************************************************************************)
(* C7: resolve_all never raises, and every schema name gets an entry in    *)
(* the resolved table.                                                     *)
(***************************************************************************)
C7_NeverRaises ==
    /\ mode # "raised"
    /\ mode = "done" => Keys(resolved_schemas) = Keys(schemas)

(***************************************************************************)
(* Vocabulary of the parameter classifier's properties.                    *)
(***************************************************************************)
Range(f) == {f[i] : i \in 1..Len(f)}

\* the entries of the parameter mapping (none when it is None)
Entries == method_parameters.items

\* the positions of the entries whose value is a mapping
DictEntries == {i \in 1..Len(Entries) : IsDict(Entries[i].v)}

Increasing(f) == \A i, j \in 1..Len(f) : i < j => f[i] < f[j]

\* the attributes of a mapping other than `name` and `required`
OtherAttrs(d) == SelectSeq(d.items, LAMBDA it : it.k \notin {"name", "required"})

\* rec is the record of entry i: its key as `name`, its other attributes kept
RecordOf(rec, i) ==
    /\ HasKey(rec, "name")
    /\ GetKey(rec, "name") = Str(Entries[i].k)
    /\ OtherAttrs(rec) = OtherAttrs(Entries[i].v)

(***************************************************************************)
(* C8: a mapping-valued entry is in the required list iff its attributes   *)
(* hold the key `required`, whatever its value, and in the optional list   *)
(* otherwise; no emitted record holds the key `required`.                  *)
(***************************************************************************)
C8_RequiredIffKey ==
    pmode = "returned" =>
        /\ \A i \in DictEntries :
              /\ i \in Range(required_src) <=> HasKey(Entries[i].v, "required")
              /\ i \in Range(optional_src) <=> ~HasKey(Entries[i].v, "required")
        /\ \A j \in 1..Len(required_params) : ~HasKey(required_params[j], "required")
        /\ \A j \in 1..Len(optional_params) : ~HasKey(optional_params[j], "required")

C8_Witness ==
    /\ pmode = "returned"
    /\ \E i \in DictEntries :
          /\ HasKey(Entries[i].v, "required")
          /\ GetKey(Entries[i].v, "required") = Bool("false")
          /\ i \in Range(required_src)
    /\ \E i \in DictEntries : i \in Range(optional_src)

(***************************************************************************)
(* C9: every mapping-valued entry yields exactly one record, in exactly    *)
(* one list, each list in the entries' order of appearance; other entries  *)
(* yield none; an empty or None parameter mapping yields two empty lists.  *)
(***************************************************************************)
C9_Partition ==
    pmode = "returned" =>
        /\ Len(required_params) = Len(required_src)
        /\ Len(optional_params) = Len(optional_src)
        /\ Range(required_src) \cup Range(optional_src) = DictEntries
        /\ Range(required_src) \cap Range(optional_src) = {}
        /\ Increasing(required_src)
        /\ Increasing(optional_src)
        /\ ~Truthy(method_parameters) => required_params = <<>> /\ optional_params = <<>>

C9_Witness ==
    /\ pmode = "returned"
    /\ Len(Entries) = 2
    /\ Len(required_params) = 2

(***************************************************************************)
(* C10: every emitted record has `name` equal to the key its parameter     *)
(* was declared under, and apart from `name` and `required` holds exactly  *)
(* the declared attributes, values unchanged.                              *)
(***************************************************************************)
C10_NameAndAttributes ==
    pmode = "returned" =>
        /\ \A j \in 1..Len(required_params) : RecordOf(required_params[j], required_src[j])
        /\ \A j \in 1..Len(optional_params) : RecordOf(optional_params[j], optional_src[j])

(***************************************************************************)
(* Vocabulary of the properties of get_api_methods.                        *)
(***************************************************************************)
\* the entry at position i of the list as it was passed
EntryIn(i) == resources_in.items[i].v

\* the positions <<i, j>> of the methods the loops reach: entry i is read and
\* its methods are a mapping
Pairs ==
    UNION {{<<i, j>> : j \in 1..Len(GetKey(EntryIn(i), "methods").items)} :
              i \in {i \in 1..Len(resources_in.items) :
                        ResourceRead(EntryIn(i)) /\ IsDict(GetKey(EntryIn(i), "methods"))}}

\* the method at position p, as it was passed, and its names
MethodIn(p) == GetKey(EntryIn(p[1]), "methods").items[p[2]].v

MethodNameIn(p) == GetKey(EntryIn(p[1]), "methods").items[p[2]].k

ResourceNameIn(p) == GetKey(EntryIn(p[1]), "resource_name")

\* m[key] is a mapping, or m has no such key
AbsentOrMapping(m, key) == ~HasKey(m, key) \/ IsDict(GetKey(m, key))

\* the request and the response of the method are mappings, where present
MappingAttrs(m) == AbsentOrMapping(m, "request") /\ AbsentOrMapping(m, "response")

\* a holds a "$ref" that names an entry of the resolved table
NamesResolved(a) ==
    /\ HasKey(a, "$ref")
    /\ GetKey(a, "$ref").t = "str"
    /\ GetKey(a, "$ref").s \in Keys(resolved_schemas)

\* schema is the descriptor's schema the statement gives for m[key]
Linked(m, key, schema) ==
    IF ~HasKey(m, key) THEN schema = Dict(<<>>)
    ELSE LET a == GetKey(m, key)
         IN  IF ~HasKey(a, "$ref") THEN schema = a
             ELSE NamesResolved(a) =>
                    /\ IsDict(schema)
                    /\ Keys(schema.items) = (Keys(a.items) \ {"$ref"}) \cup {"schema"}
                    /\ \A key2 \in Keys(a.items) \ {"$ref", "schema"} :
                           GetKey(schema, key2) = GetKey(a, key2)
                    /\ GetKey(schema, "schema") =
                           ValueOf(resolved_schemas, GetKey(a, "$ref").s)

LookupFails(a) ==
    /\ HasKey(a, "$ref")
    /\ ~NamesResolved(a)

\* schema["schema"] is the reference of m[key], as it was written
KeepsReference(m, key, schema) ==
    (HasKey(m, key) /\ LookupFails(GetKey(m, key))) =>
        /\ IsDict(schema)
        /\ HasKey(schema, "schema")
        /\ GetKey(schema, "schema") = GetKey(GetKey(m, key), "$ref")

\* C12: when the lookup of the schema named by "$ref" fails (the resolver
\* raises, or the name has no entry in the resolved table), the "schema" key
\* of the descriptor's schema holds the raw reference
C12_FailedLookupKeepsReference ==
    \A k \in 1..Len(formatted_api_endpoints) :
        LET m == MethodIn(endpoint_src[k])
        IN  MappingAttrs(m) =>
                /\ KeepsReference(m, "request", formatted_api_endpoints[k].request_schema)
                /\ KeepsReference(m, "response", formatted_api_endpoints[k].response_schema)

\* the method at position p can be built: processed on its own it gives a
\* descriptor
CanBuild(p) ==
    ~MethodFails(ResourceNameIn(p), MethodNameIn(p), MethodIn(p), resolved_schemas)

\* the loops are past position p
Processed(p) == p[1] < gi \/ (p[1] = gi /\ gmode = "methods" /\ p[2] < gj)

\* C13: a failure while processing one method (a method that is no mapping,
\* the classifier or the schema step raising, the validation of the descriptor
\* failing) drops that method only: of the methods the loops are past, the
\* result holds exactly those that can be built
C13_FailureDropsOnlyThatMethod ==
    \A p \in Pairs : Processed(p) => (CanBuild(p) <=> p \in Range(endpoint_src))

\* a run returned the descriptor of a method that follows, in the same
\* resource, a method that failed
C13_Witness ==
    /\ gmode = "returned"
    /\ \E p, q \in Pairs :
           /\ ~CanBuild(p)
           /\ q \in Range(endpoint_src)
           /\ p[1] = q[1]
           /\ p[2] < q[2]

\* C14: get_api_methods never raises, whatever the list of entries holds
C14_NeverRaises == gmode # "raised"

\* position p is before position q in encounter order
Before(p, q) == p[1] < q[1] \/ (p[1] = q[1] /\ p[2] < q[2])

\* a method a discovery document would hold: a mapping whose entries have the
\* types get_api_methods reads them with
WellFormed(m) ==
    /\ IsDict(m)
    /\ MappingAttrs(m)
    /\ AbsentOrMapping(m, "parameters")
    /\ \A key \in {"httpMethod", "path", "description"} :
           HasKey(m, key) => GetKey(m, key).t = "str"
    /\ ~HasKey(m, "parameterOrder")

\* every entry of the list is an entry get_api_resources_with_methods builds,
\* and every method is well-formed
WellFormedList ==
    /\ \A i \in 1..Len(resources_in.items) :
           /\ ResourceRead(EntryIn(i))
           /\ IsDict(GetKey(EntryIn(i), "methods"))
           /\ GetKey(EntryIn(i), "resource_name").t = "str"
    /\ \A p \in Pairs : WellFormed(MethodIn(p))

Called(function) == function \in Range(calls)

\* the resource holds a methods mapping
HasMethodsMapping(resource) ==
    /\ IsDict(resource)
    /\ HasKey(resource, "methods")
    /\ IsDict(GetKey(resource, "methods"))

\* the document holds a non-empty resources mapping, none of whose resources
\* holds a methods mapping
NoMethodsMapping ==
    /\ IsDict(json_file)
    /\ HasKey(json_file, "resources")
    /\ IsDict(GetKey(json_file, "resources"))
    /\ GetKey(json_file, "resources").items # <<>>
    /\ \A i \in 1..Len(GetKey(json_file, "resources").items) :
           ~HasMethodsMapping(GetKey(json_file, "resources").items[i].v)

\* C16: a document whose resources are non-empty but hold no resource with a
\* methods mapping is rejected: get_api_resources_with_methods, once called,
\* raises, and get_api_methods is never started
C16_NoMethodsMappingRejected ==
    (NoMethodsMapping /\ Called("get_api_resources_with_methods")) =>
        /\ failure = "get_api_resources_with_methods"
        /\ ~Called("get_api_methods")
        /\ gmode = "off"

\* the document is a mapping whose resources section is absent, null or empty
ResourcesAbsentOrEmpty ==
    /\ IsDict(json_file)
    /\ ~Truthy(DictGet(json_file, "resources", Dict(<<>>)))

\* C17: a document whose resources section is absent or empty is rejected by
\* extract_top_level_attributes, before the schema resolver is constructed: no
\* schema is resolved and no method is extracted in that run
C17_NoResourcesRejected ==
    ResourcesAbsentOrEmpty =>
        /\ ~Called("SchemaResolver")
        /\ ~Called("resolve_all")
        /\ ~Called("get_api_methods")
        /\ mode = "off"
        /\ resolved_schemas = <<>>
        /\ gmode = "off"
        /\ formatted_api_endpoints = <<>>
        /\ Called("extract_top_level_attributes") =>
               /\ failure = "extract_top_level_attributes"
               /\ parse_result = "raised"
               /\ pc = "done"

\* a run ended at the extraction of a document that holds schemas and an
\* empty resources mapping
C17_Witness ==
    /\ pc = "done"
    /\ failure = "extract_top_level_attributes"
    /\ HasKey(json_file, "resources")
    /\ GetKey(json_file, "resources") = Dict(<<>>)
    /\ HasKey(json_file, "schemas")
    /\ Truthy(GetKey(json_file, "schemas"))

\* the stages of parse_data, in the order of its statements
ParseStages ==
    <<"load_file_data", "extract_top_level_attributes", "SchemaResolver", "resolve_all",
      "get_api_resources_with_methods", "get_api_methods">>

\* s is the beginning of t
IsPrefix(s, t) == Len(s) <= Len(t) /\ s = SubSeq(t, 1, Len(s))

\* C18: the stages of parse_data are invoked in the order load, top-level
\* extraction, resolve_all, method extraction; once get_api_methods has
\* started, resolve_all has returned with an entry for every schema name, and
\* no call of _resolve_schema is at work
C18_ResolvedBeforeExtraction ==
    /\ IsPrefix(SelectSeq(calls, LAMBDA c : c \in Range(ParseStages)), ParseStages)
    /\ gmode # "off" =>
           /\ mode = "done"
           /\ stack = <<>>
           /\ schemas = parent_metadata.schemas.items
           /\ Keys(resolved_schemas) = Keys(schemas)
           /\ Len(resolved_schemas) = Len(schemas)

\* get_api_methods is at work on a method, with a table of two schemas
C18_Witness ==
    /\ pc = "get_api_methods"
    /\ gmode = "methods"
    /\ gj = 1
    /\ Len(resolved_schemas) = 2

\* C19: when method extraction yields no descriptor, the export is never
\* invoked: convert_api_methods_to_csv is not called with an empty list, and
\* the run ends without a CSV file
C19_EmptyResultSkipsExport ==
    /\ Called("convert_api_methods_to_csv") => formatted_api_endpoints # <<>>
    /\ (parse_result = "returned" /\ formatted_api_endpoints = <<>>) =>
           /\ pc = "done"
           /\ ~Called("convert_api_methods_to_csv")
           /\ response = None

\* parse_data returned the empty list and the run has ended
C19_Witness ==
    /\ pc = "done"
    /\ parse_result = "returned"
    /\ formatted_api_endpoints = <<>>
    /\ Called("get_api_methods")

C22_InputUnchanged ==
    gmode = "returned" => resources_with_methods = resources_in

\* C23: once resolve_all has returned, the rest of the run leaves the
\* resolved table as it is: no step of get_api_methods, with its calls of
\* get_resolved, changes an entry of resolved_schemas or its key set
C23_TableFrozen ==
    [][mode = "done" => resolved_schemas' = resolved_schemas]_vars

\* get_api_methods has returned a descriptor linked to an entry of the table
C23_Witness ==
    /\ mode = "done"
    /\ pc = "get_api_methods"
    /\ gmode = "returned"
    /\ \E i \in 1..Len(formatted_api_endpoints) :
           /\ HasKey(formatted_api_endpoints[i].request_schema, "schema")
           /\ GetKey(formatted_api_endpoints[i].request_schema, "schema")
                  = GetResolved(resolved_schemas, Str("Event"))
    /\ Len(resolved_schemas) = 2

(***************************************************************************)
(* Vocabulary of the properties of convert_api_methods_to_csv.             *)
(***************************************************************************)
\* the lines of the file after the header
DataRows == SubSeq(csv_file.lines, 2, Len(csv_file.lines))

\* C24: for a list of N > 0 descriptors the export that returns has written
\* one header line, the field names of the first descriptor, and exactly N
\* data rows, row i that of descriptor i; a non-empty list fails on a failed
\* write only; the empty list raises ValueError and no file is written
C24_HeaderAndRows ==
    /\ cmode = "returned" =>
           /\ csv_data # <<>>
           /\ csv_file.exists
           /\ csv_file.lines[1] = <<"name", "parameters">>
           /\ Len(DataRows) = Len(csv_data)
           /\ \A i \in 1..Len(csv_data) :
                  /\ Len(DataRows[i]) = 2
                  /\ DataRows[i][1] = GetKey(csv_data[i], "name").s
    /\ (cmode = "raised" /\ csv_data # <<>>) => csv_error = "IOError"
    /\ (cmode \notin {"off", "called"} /\ csv_data = <<>>) =>
           /\ cmode = "raised"
           /\ csv_error = "ValueError"
           /\ ~csv_file.exists

\* two descriptors of different names were exported
C24_Witness ==
    /\ cmode = "returned"
    /\ Len(csv_data) = 2
    /\ GetKey(csv_data[1], "name") # GetKey(csv_data[2], "name")
    /\ Len(csv_file.lines) = 3

\* C25: every field of every exported row is flattened by the stated rule:
\* an empty mapping or sequence is written as the empty field, a non-empty
\* one as its JSON text, and every scalar, 0, false and "" included, as it is
C25_FlattenRule ==
    \A i \in 1..Len(DataRows) : \A j \in 1..Len(column_names) :
        LET value == GetKey(csv_data[i], column_names[j])
        IN  DataRows[i][j] =
                IF IsDict(value) \/ IsList(value)
                THEN IF value.items = <<>> THEN "" ELSE Dumps(value)
                ELSE CsvText(value)

\* the number of invocations of the function so far
Invocations(function) == Cardinality({i \in 1..Len(calls) : calls[i] = function})

\* the three stages of main_entry_point_function
MainStages == {"fetch_api_data", "parse_data", "convert_api_methods_to_csv"}

\* C26: in one run each of the stages fetch, parse and export is invoked at
\* most once; after a failure, and after the run has ended, no stage is
\* invoked; when fetch_api_data yields no path, parse_data and the export
\* are never invoked
C26_StagesAtMostOnce ==
    /\ [](/\ \A stage \in MainStages : Invocations(stage) <= 1
          /\ (Called("fetch_api_data") /\ ~Truthy(json_save_path)) =>
                 /\ pc = "done"
                 /\ ~Called("parse_data")
                 /\ ~Called("convert_api_methods_to_csv"))
    /\ [][(failure # "" \/ pc = "done") => calls' = calls]_vars

\* fetch_api_data returned None and the run has ended without a failure
C26_Witness ==
    /\ pc = "done"
    /\ calls = <<"fetch_api_data">>
    /\ json_save_path = None
    /\ failure = ""

(***************************************************************************)
(* Further properties of the resolver.                                     *)
(***************************************************************************)
\* the frames of the call stack that dereferenced a "$ref"
RefFrames == {j \in 1..Len(stack) : stack[j].kind = "ref"}

\* the values of the "$ref" keys found in the schemas mapping
ReferencedNames == UNION {RefValues(schemas[i].v) : i \in 1..Len(schemas)}

\* C27: on one resolution path no schema name is dereferenced twice, so the
\* dereferences on the path are never more than the distinct names the
\* schemas mapping refers to
C27_DereferencedOncePerPath ==
    /\ \A i, j \in RefFrames :
           i # j => GetKey(stack[i].node, "$ref") # GetKey(stack[j].node, "$ref")
    /\ Cardinality(RefFrames) <= Cardinality(ReferencedNames)

\* a path of two dereferences arrives at a reference to a name it holds
C27_Witness ==
    /\ Cardinality(RefFrames) = 2
    /\ CallOnRef
    /\ GetKey(arg, "$ref") \in PathRefs

RECURSIVE ResolveSchema(_, _, _)
RECURSIVE ResolveItems(_, _, _, _)
\* _resolve_schema(schema, seen) over the schemas mapping m, as a function:
\* the value returned, and the seen set as the call leaves it
ResolveSchema(m, schema, seen) ==
    IF IsList(schema)
    THEN LET r == ResolveItems(m, schema.items, 1, seen)
         IN  [value |-> [t |-> "list", s |-> "", items |-> r.items], seen |-> r.seen]
    ELSE IF ~IsDict(schema) THEN [value |-> schema, seen |-> seen]
    ELSE IF HasKey(schema, "$ref")
    THEN LET ref_value == GetKey(schema, "$ref")
         IN  IF ref_value \in seen THEN [value |-> Marker(ref_value), seen |-> seen]
             ELSE IF Unresolved(SchemasGet(m, ref_value))
             THEN [value |-> Marker(ref_value), seen |-> seen \cup {ref_value}]
             ELSE ResolveSchema(m, SchemasGet(m, ref_value), seen \cup {ref_value})
    ELSE [value |-> Dict([i \in 1..Len(schema.items) |->
                             Item(schema.items[i].k,
                                  ResolveSchema(m, schema.items[i].v, seen).value)]),
          seen |-> seen]

\* the items of a list from position i on, all resolved with the one seen set
ResolveItems(m, items, i, seen) ==
    IF i > Len(items) THEN [items |-> <<>>, seen |-> seen]
    ELSE LET r == ResolveSchema(m, items[i].v, seen)
             rest == ResolveItems(m, items, i + 1, r.seen)
         IN  [items |-> <<Item("", r.value)>> \o rest.items, seen |-> rest.seen]

\* C28: resolve_all never changes the schemas mapping; every entry it stores
\* is the resolution of that name's schema from an empty seen set, a function
\* of the schemas mapping alone, whatever was resolved before it; and once it
\* has returned the table holds exactly the keys of the schemas mapping
C28_EntriesDependOnSchemasOnly ==
    /\ [][schemas' = schemas]_vars
    /\ [](/\ \A i \in 1..Len(resolved_schemas) :
                 resolved_schemas[i] =
                     Item(schemas[i].k, ResolveSchema(schemas, schemas[i].v, {}).value)
          /\ mode = "done" =>
                 /\ Len(resolved_schemas) = Len(schemas)
                 /\ Keys(resolved_schemas) = Keys(schemas))

\* resolve_all has returned for two schemas that refer to each other, each
\* entry holding the marker of its own path
C28_Witness ==
    /\ mode = "done"
    /\ Len(resolved_schemas) = 2
    /\ References("A", "B") /\ References("B", "A")
    /\ ValueOf(resolved_schemas, "A") # ValueOf(resolved_schemas, "B")

\* C29: get_api_methods is repeatable: a second call on the same resource
\* list and the same resolved table returns a descriptor list equal to the
\* one the first call returned
C29_SecondCallEqual ==
    (gmode = "returned" /\ returned_before # <<>>) =>
        formatted_api_endpoints = returned_before[1]

\* both calls returned a descriptor whose request is linked to the schema
\* Event, the second call on a list the first one had changed
C29_Witness ==
    /\ gmode = "returned"
    /\ returned_before # <<>>
    /\ \E i \in 1..Len(formatted_api_endpoints) :
           /\ HasKey(formatted_api_endpoints[i].request_schema, "schema")
           /\ GetKey(formatted_api_endpoints[i].request_schema, "schema") = EventSchema
    /\ \E i \in 1..Len(resources_in.items) :
           /\ ResourceRead(resources_in.items[i].v)
           /\ LET methods == GetKey(resources_in.items[i].v, "methods")
              IN  /\ IsDict(methods)
                  /\ \E j \in 1..Len(methods.items) :
                         /\ IsDict(methods.items[j].v)
                         /\ HasKey(methods.items[j].v, "request")
                         /\ IsDict(GetKey(methods.items[j].v, "request"))
                         /\ HasKey(GetKey(methods.items[j].v, "request"), "schema")

\* C30: get_api_method_parameters leaves the parameter mapping as it was
\* passed: no step changes it, and the attribute mapping of every record of
\* the required list still holds `required`, which the record itself lacks
C30_ParametersUnchanged ==
    /\ [][method_parameters' = method_parameters]_vars
    /\ [](pmode = "returned" =>
              \A j \in 1..Len(required_params) :
                  /\ HasKey(Entries[required_src[j]].v, "required")
                  /\ ~HasKey(required_params[j], "required")
                  /\ OtherAttrs(required_params[j]) = OtherAttrs(Entries[required_src[j]].v))

\* a parameter with `required` and a further attribute was emitted
C30_Witness ==
    /\ pmode = "returned"
    /\ \E j \in 1..Len(required_params) :
           /\ HasKey(Entries[required_src[j]].v, "required")
           /\ OtherAttrs(Entries[required_src[j]].v) # <<>>

====
